---------------------------- MODULE Spec2Model ----------------------------
(***************************************************************************)
(* A model of odfuzz's fuzzer core (src/odfuzz/fuzzer.py): the corpus      *)
(* store (MongoClient), the fitness evaluator, the selector, crossover and *)
(* generation, and the evolution driver (Fuzzer.run).                      *)
(*                                                                         *)
(* Two specifications share the variables:                                 *)
(*   Spec       the driver, from Fuzzer.__init__ through seed_population   *)
(*              and evolve_population;                                     *)
(*   StoreSpec  the MongoClient operations called in any order with        *)
(*              query dictionaries built by Query._create_dict.            *)
(***************************************************************************)
EXTENDS Integers, Sequences, FiniteSets, TLC

(***************************************************************************)
(* Program constants.                                                      *)
(***************************************************************************)
STRING_THRESHOLD == 200
ITERATIONS_THRESHOLD == 30
SCORE_EPS == 200
\* fuzzer.py imports PARTS_NUM; constants.py names the value FILTER_PARTS_NUM.
PARTS_NUM == 2
FILTER == "$filter"

\* The literal score bound of remove_weak_queries, 5.521123123213123123213123,
\* in thousandths (rounded down), and the literal of its $limit stage.
WEAK_SCORE_LITERAL_MILLI == 5521
WEAK_LIMIT_LITERAL == 1
\* The size of find_similar_queries' $sample stage.
SAMPLE_SIZE == 2

(***************************************************************************)
(* Values fuzzer.py imports from odfuzz.constants that constants.py does   *)
(* not set; the model fixes them small.                                    *)
(***************************************************************************)
POOL_SIZE == 2
SEED_POPULATION == 1
SELECTION_THRESHOLD == 2

(***************************************************************************)
(* Bounds of the model.                                                    *)
(***************************************************************************)
\* evolve_population's `while True` is cut after this many iterations.
MaxIterations == 2
\* StoreSpec makes at most this many save_document calls with a new query.
MaxSaves == 2
\* StoreSpec calls remove_weak_queries with number in 0..MaxNumber.
MaxNumber == 2
\* SelectorSpec cuts evolve_population's `while True` after this many
\* iterations: enough for select() to pass ITERATIONS_THRESHOLD.
MaxSelects == 33

Min(a, b) == IF a < b THEN a ELSE b

(***************************************************************************)
(* Filter options.  A part is {name, operator, operand}; a filter option   *)
(* is {logicals, parts, groups}.                                           *)
(***************************************************************************)
PartA == [name |-> "Id", operator |-> "eq", operand |-> "1"]
PartB == [name |-> "Description", operator |-> "ne",
          operand |-> "'aaaaaaaaaaaaaaaaaaaaaaaaaaaaaaaaaaaaaaaa'"]
PartValues == {PartA, PartB}
LogicalValues == {"and"}

NoFilter == [logicals |-> <<>>, parts |-> <<>>, groups |-> <<>>]

\* What option.generate() can return as generated_option.data: a single
\* part, or two different parts in either order joined by a logical operator;
\* no groups.
GenFilters ==
    {[logicals |-> <<>>, parts |-> <<PartA>>, groups |-> <<>>]}
    \cup {[logicals |-> <<x[1]>>, parts |-> <<x[2], x[3]>>, groups |-> <<>>] :
            x \in {y \in LogicalValues \X PartValues \X PartValues : y[2] # y[3]}}

part_string(p) == p.name \o " " \o p.operator \o " " \o p.operand

RECURSIVE build_from(_, _)
build_from(option, i) ==
    IF i > Len(option.parts) THEN ""
    ELSE IF i = 1 THEN part_string(option.parts[1]) \o build_from(option, 2)
    ELSE " " \o option.logicals[i - 1] \o " " \o part_string(option.parts[i])
         \o build_from(option, i + 1)

\* FilterOptionBuilder(option).build(): the filter option's URL form.
build(option) == build_from(option, 1)

(***************************************************************************)
(* Responses.  elapsed is in hundredths of a second.                       *)
(***************************************************************************)
NoErrorCode == "None"
NoResponse == [status_code |-> 0, error_code |-> NoErrorCode, elapsed |-> 0]

\* What Dispatcher.get returns to the driver: a requests response, which
\* carries no error_code attribute.
DriverResponses ==
    {[status_code |-> s, error_code |-> NoErrorCode, elapsed |-> 10] : s \in {200, 500}}

\* Responses of the query objects StoreSpec saves.
StoreResponses ==
    DriverResponses \cup {[status_code |-> 500, error_code |-> "SY/530", elapsed |-> 10]}

(***************************************************************************)
(* FitnessEvaluator                                                        *)
(***************************************************************************)
\* Python 3's round(a / b) for a >= 0, b > 0: to nearest, a tie to even.
RoundDiv(a, b) ==
    LET q == a \div b
        r == a % b
    IN  IF 2 * r < b THEN q
        ELSE IF 2 * r > b THEN q + 1
        ELSE IF q % 2 = 0 THEN q ELSE q + 1

eval_http_status_code(status_code) == IF status_code = 500 THEN 100 ELSE 0

\* The bounds taken with <= instead of <.
eval_http_response_time_Inclusive(elapsed) ==
    IF elapsed <= 200 THEN 0
    ELSE IF elapsed <= 1000 THEN 1
    ELSE IF elapsed <= 2000 THEN 2
    ELSE 5

eval_http_response_time(elapsed) ==
    IF elapsed < 200 THEN 0
    ELSE IF elapsed < 1000 THEN 1
    ELSE IF elapsed < 2000 THEN 2
    ELSE 5

eval_string_length(string_length) == RoundDiv(STRING_THRESHOLD, string_length)

\* Sum of len(option_name) over query.options.keys(): $filter is the only key.
keys_len(query) == Len(FILTER)

query_len(query) == Len(query.query_string) - Len(query.entity_name) - keys_len(query)

evaluate(query) ==
    eval_string_length(query_len(query))
    + eval_http_status_code(query.response.status_code)
    + eval_http_response_time(query.response.elapsed)

(***************************************************************************)
(* Query objects.  options[FILTER] is a reference.  `aliased` says that it  *)
(* refers to the first parent's filter dictionary (selection.crossable[1]) *)
(* and `filter` then keeps the value that dictionary had when the query    *)
(* was built; otherwise the query owns the value in `filter`.  `responded` *)
(* says that response is not None, `scored` that score was assigned,       *)
(* `failed` that the dispatcher raised DispatcherError for the query, and  *)
(* `killable` is the killable of the AnalysisInfo analyze returned for it. *)
(***************************************************************************)
NoQuery ==
    [none |-> TRUE, id |-> 0, entity_name |-> "", aliased |-> FALSE,
     filter |-> NoFilter, query_string |-> "", responded |-> FALSE,
     failed |-> FALSE, response |-> NoResponse, scored |-> FALSE, score |-> 0,
     predecessors |-> <<>>, killable |-> FALSE]

\* Query.__init__
Query(id, entity_name) ==
    [NoQuery EXCEPT !.none = FALSE, !.id = id, !.entity_name = entity_name]

\* An analyze that leaves out `query.score = new_score`.
assign_score_Dropped(query, new_score) == query

\* Analyzer.analyze: query.score = new_score
assign_score(query, new_score) == [query EXCEPT !.score = new_score, !.scored = TRUE]

\* Query._create_dict: the document of one query.  `status`, `entity`,
\* `responded` and `scored` on the query entry are not fields of the
\* program's dictionary: they record the status of the response this very
\* query received, the entity set this very query was built for, and whether
\* a response was attached and a score assigned when the dictionary was built.
create_dict(query, filter_value) ==
    [HTTP |-> ToString(query.response.status_code),
     ErrorCode |-> query.response.error_code,
     name |-> query.entity_name,
     queries |-> << [id |-> query.id,
                     predecessors |-> query.predecessors,
                     string |-> query.query_string,
                     score |-> query.score,
                     filter |-> filter_value,
                     status |-> query.response.status_code,
                     entity |-> query.entity_name,
                     responded |-> query.responded,
                     scored |-> query.scored] >>]

(***************************************************************************)
(* MongoClient.  A collection is the sequence of its documents.            *)
(***************************************************************************)
Range(s) == {s[i] : i \in DOMAIN s}

RECURSIVE SumSeq(_)
SumSeq(s) == IF s = <<>> THEN 0 ELSE Head(s) + SumSeq(Tail(s))

RECURSIVE Flatten(_)
Flatten(ss) == IF ss = <<>> THEN <<>> ELSE Head(ss) \o Flatten(Tail(ss))

\* {'$project': {'Query': '$EntitySet.queries'}}, {'$unwind': '$Query'}
unwind(coll) == Flatten([i \in DOMAIN coll |-> coll[i].queries])

insert_single_document(coll, query_dict) ==
    IF \A i \in DOMAIN coll :
          ~(coll[i].name = query_dict.name /\ coll[i].ErrorCode = query_dict.ErrorCode)
    THEN [inserted |-> TRUE, coll |-> Append(coll, query_dict)]
    ELSE [inserted |-> FALSE, coll |-> coll]

\* An update without the {'EntitySet.queries.string': {'$ne': ...}} condition.
update_single_document_NoDedup(coll, query_dict) ==
    LET query == query_dict.queries[1]
        Match(i) == /\ coll[i].name = query_dict.name
                    /\ coll[i].ErrorCode = query_dict.ErrorCode
        hits == {i \in DOMAIN coll : Match(i)}
    IN  IF hits = {} THEN coll
        ELSE LET first == CHOOSE i \in hits : \A j \in hits : i <= j
             IN  [coll EXCEPT ![first].queries = Append(@, query)]

\* update_one changes the first document the filter matches.
update_single_document(coll, query_dict) ==
    LET query == query_dict.queries[1]
        Match(i) == /\ coll[i].name = query_dict.name
                    /\ coll[i].ErrorCode = query_dict.ErrorCode
                    /\ \A k \in DOMAIN coll[i].queries :
                          coll[i].queries[k].string # query.string
        hits == {i \in DOMAIN coll : Match(i)}
    IN  IF hits = {} THEN coll
        ELSE LET first == CHOOSE i \in hits : \A j \in hits : i <= j
             IN  [coll EXCEPT ![first].queries = Append(@, query)]

save_document(coll, query_dict) ==
    LET ins == insert_single_document(coll, query_dict)
    IN  IF ins.inserted THEN ins.coll ELSE update_single_document(coll, query_dict)

\* query_by_id's cursor_list: the documents {'Query': query} the $project,
\* $unwind and $match stages yield (their _id left out).  The method returns
\* the first of them, or None when there is none.
query_by_id(coll, query_id) ==
    LET matches == SelectSeq(unwind(coll), LAMBDA q : q.id = query_id)
    IN  [i \in DOMAIN matches |-> [Query |-> matches[i]]]

has_overall(coll) == coll # <<>>
overall_score(coll) == SumSeq([i \in DOMAIN unwind(coll) |-> unwind(coll)[i].score])

has_total(coll) == unwind(coll) # <<>>
total_queries(coll) == Len(unwind(coll))

\* score < score_average, the average a quotient num / den of integers.
ScoreLess(score, average) == score * average.den < average.num

\* $lt against the literal bound.
below_literal(score) == score * 1000 <= WEAK_SCORE_LITERAL_MILLI

\* The aggregate of remove_weak_queries has no $sort stage, so which of the
\* matching queries pass its $limit stage is left to the store: each set of
\* positions (in the unwound query list) the cursor may yield.
weak_choices(coll, score_average, number) ==
    LET all == unwind(coll)
        matching == {i \in DOMAIN all : below_literal(all[i].score)}
    IN  {S \in SUBSET matching :
            Cardinality(S) = Min(WEAK_LIMIT_LITERAL, Cardinality(matching))}

\* update({}, {'$pull': {'EntitySet.queries': {'id': {'$in': ids}}}}, multi=True)
pull(coll, ids) ==
    [i \in DOMAIN coll |->
        [coll[i] EXCEPT !.queries = SelectSeq(@, LAMBDA q : q.id \notin ids)]]

\* remove_weak_queries(score_average, number) when the cursor yields the
\* queries at positions `picked`: the collection left and the count returned.
remove_weak_queries(coll, score_average, number, picked) ==
    LET all == unwind(coll)
        ids_to_delete == {all[i].id : i \in picked}
    IN  [coll |-> pull(coll, ids_to_delete),
         removed |-> SelectSeq(all, LAMBDA q : q.id \in ids_to_delete),
         count |-> Cardinality(picked)]

\* The first $match, $project, $unwind and second $match of
\* find_similar_queries: the queries $sample draws from.
similar_candidates(coll, http_code, entity_set_name) ==
    LET docs == SelectSeq(coll, LAMBDA d : d.HTTP = http_code /\ d.name = entity_set_name)
    IN  SelectSeq(unwind(docs), LAMBDA q : Len(q.filter.parts) >= PARTS_NUM)

\* A $sample that may draw the same candidate twice.
sample_Repeating(cands, size) ==
    LET m == Min(size, Len(cands))
    IN  {[k \in 1..m |-> cands[f[k]]] : f \in [1..m -> DOMAIN cands]}

\* {'$sample': {'size': size}}: min(size, n) of the n candidates, no candidate
\* twice, in any order.
sample(cands, size) ==
    LET m == Min(size, Len(cands))
        picks == {f \in [1..m -> DOMAIN cands] :
                    \A a, b \in 1..m : a # b => f[a] # f[b]}
    IN  {[k \in 1..m |-> cands[f[k]]] : f \in picks}

\* The lists find_similar_queries(http_code, entity_set_name) can return.
find_similar_queries(coll, http_code, entity_set_name) ==
    sample(similar_candidates(coll, http_code, entity_set_name), SAMPLE_SIZE)

(***************************************************************************)
(* Selector._get_crossable: the outcomes of its for loop with n iterations *)
(* left.  An outcome is the list returned, with the number of iterations   *)
(* made (tries) and the number of them that consulted status 200           *)
(* (fallbacks).                                                            *)
(***************************************************************************)
RECURSIVE crossable_loop(_, _, _, _)
crossable_loop(coll, name, n, acc) ==
    IF n = 0 THEN {acc}
    ELSE UNION {
        IF p5 = <<>>
        THEN UNION {
                LET a2 == [pair |-> p2, tries |-> acc.tries + 1,
                           fallbacks |-> acc.fallbacks + 1]
                IN  IF p2 = <<>> THEN crossable_loop(coll, name, n - 1, a2)
                    ELSE IF Len(p2) = 2 THEN {a2}
                    ELSE crossable_loop(coll, name, n - 1, a2)
                : p2 \in find_similar_queries(coll, "200", name)}
        ELSE LET a5 == [pair |-> p5, tries |-> acc.tries + 1,
                        fallbacks |-> acc.fallbacks]
             IN  IF Len(p5) = 2 THEN {a5}
                 ELSE crossable_loop(coll, name, n - 1, a5)
        : p5 \in find_similar_queries(coll, "500", name)}

get_crossable(coll, name) ==
    crossable_loop(coll, name, SELECTION_THRESHOLD,
                   [pair |-> <<>>, tries |-> 0, fallbacks |-> 0])

(***************************************************************************)
(* State.                                                                  *)
(***************************************************************************)
VARIABLES
    collection,         \* MongoClient._collection: the sequence of documents
    async_mode,         \* Fuzzer._async
    pc,                 \* where the driver is
    phase,              \* "seed" or "evolve": the loop the driver is in
    seed_pos,           \* seed_population: <<queryable index, iterations done>>
    queries,            \* the batch of Query objects in hand
    k,                  \* index of the loop over the batch
    tests_num,          \* Fuzzer._tests_num
    fails_num,          \* Fuzzer._fails_num
    old_tests_num,      \* evolve_population's old_tests_num
    selection,          \* the Selection in hand
    score_average,      \* Selector._score_average (a quotient of integers)
    passed_iterations,  \* Selector._passed_iterations
    population_score,   \* Analyzer._population_score
    next_id,            \* the next fresh query id
    iterations,         \* evolve_population iterations started
    sel_tries,          \* _get_crossable iterations made by the select() in progress
    parents,            \* the pair select() returned, as it was returned
    pending,            \* indices of the batch whose dispatch has not ended
    error,              \* the exception that ended run(), or "none"
    last,               \* the last MongoClient call: its arguments and result
    nsaves              \* StoreSpec: save_document calls made with a new query

driverVars ==
    <<async_mode, pc, phase, seed_pos, queries, k, tests_num, fails_num,
      old_tests_num, selection, score_average, passed_iterations,
      population_score, iterations, sel_tries, parents, pending, error>>

vars == <<collection, next_id, last, nsaves, driverVars>>

\* The queryables Builder.build() yields.
Entities ==
    << [name |-> "E1", properties |-> 2, has_filter |-> TRUE],
       [name |-> "E2", properties |-> 2, has_filter |-> FALSE] >>

EntityNames == {Entities[i].name : i \in DOMAIN Entities}

Average(num, den) == [num |-> num, den |-> den]

NoSelection ==
    [crossable |-> <<>>, queryable |-> 0, score_average |-> Average(0, 1)]

NoCall ==
    [op |-> "none", dict |-> create_dict(NoQuery, NoFilter), http |-> "",
     name |-> "", average |-> Average(0, 1), number |-> 0, result |-> <<>>,
     count |-> 0, tries |-> 0, fallbacks |-> 0, below |-> 0]

\* The number of stored queries with score < score_average.
below_count(coll, average) ==
    Len(SelectSeq(unwind(coll), LAMBDA q : ScoreLess(q.score, average)))

DriverIdle ==
    /\ async_mode = FALSE
    /\ pc = "store"
    /\ phase = "none"
    /\ seed_pos = <<1, 0>>
    /\ queries = <<>>
    /\ k = 0
    /\ tests_num = 0
    /\ fails_num = 0
    /\ old_tests_num = 0
    /\ selection = NoSelection
    /\ score_average = Average(0, 1)
    /\ passed_iterations = 0
    /\ population_score = 0
    /\ iterations = 0
    /\ sel_tries = 0
    /\ parents = <<>>
    /\ pending = {}
    /\ error = "none"

(***************************************************************************)
(* StoreSpec: the MongoClient operations, called in any order.             *)
(***************************************************************************)
\* Filter options of the queries StoreSpec saves.
StoreFilters == GenFilters

\* A query as the driver hands it to save_document: built for an entity set,
\* answered and scored.
StoreQueries(id) ==
    {LET q0 == [Query(id, name) EXCEPT
                    !.filter = f,
                    !.query_string = name \o "?" \o FILTER \o "=" \o build(f),
                    !.responded = TRUE,
                    !.response = r]
     IN  assign_score(q0, evaluate(q0))
     : name \in EntityNames, f \in StoreFilters, r \in StoreResponses}

StoreAverages == {Average(3, 1), Average(500, 1)}

StoreInit ==
    /\ collection = <<>>
    /\ next_id = 1
    /\ last = NoCall
    /\ nsaves = 0
    /\ DriverIdle

StoreSave ==
    /\ nsaves < MaxSaves
    /\ \E q \in StoreQueries(next_id) :
        LET d == create_dict(q, q.filter)
        IN  /\ collection' = save_document(collection, d)
            /\ last' = [NoCall EXCEPT !.op = "save", !.dict = d]
    /\ next_id' = next_id + 1
    /\ nsaves' = nsaves + 1
    /\ UNCHANGED driverVars

\* save_document called again with the dictionary of the last save.
StoreSaveAgain ==
    /\ last.op = "save"
    /\ collection' = save_document(collection, last.dict)
    /\ last' = [last EXCEPT !.op = "save_again"]
    /\ UNCHANGED <<next_id, nsaves, driverVars>>

StoreRemoveWeak ==
    /\ \E average \in StoreAverages, number \in 0..MaxNumber :
        \E picked \in weak_choices(collection, average, number) :
            LET r == remove_weak_queries(collection, average, number, picked)
            IN  /\ collection' = r.coll
                /\ last' = [NoCall EXCEPT !.op = "remove_weak",
                                          !.average = average,
                                          !.number = number,
                                          !.result = r.removed,
                                          !.count = r.count,
                                          !.below = below_count(collection, average)]
    /\ UNCHANGED <<next_id, nsaves, driverVars>>

StoreFindSimilar ==
    /\ \E http_code \in {"200", "500"}, name \in EntityNames :
        \E r \in find_similar_queries(collection, http_code, name) :
            last' = [NoCall EXCEPT !.op = "find_similar", !.http = http_code,
                                  !.name = name, !.result = r]
    /\ UNCHANGED <<collection, next_id, nsaves, driverVars>>

StoreGetCrossable ==
    /\ \E name \in EntityNames :
        \E o \in get_crossable(collection, name) :
            last' = [NoCall EXCEPT !.op = "get_crossable", !.name = name,
                                  !.result = o.pair, !.tries = o.tries,
                                  !.fallbacks = o.fallbacks]
    /\ UNCHANGED <<collection, next_id, nsaves, driverVars>>

StoreNext ==
    \/ StoreSave
    \/ StoreSaveAgain
    \/ StoreRemoveWeak
    \/ StoreFindSimilar
    \/ StoreGetCrossable

StoreSpec == StoreInit /\ [][StoreNext]_vars

(***************************************************************************)
(* Spec: the driver, Fuzzer.run().                                         *)
(***************************************************************************)
\* What the database can hold when MongoClient() connects to it: nothing, or
\* the document an earlier run saved for one answered and scored query.
PriorQueries ==
    {q \in StoreQueries(0) :
        /\ q.entity_name = Entities[1].name
        /\ q.response.status_code = 200
        /\ q.filter.parts = <<PartA, PartB>>}

InitialCollections ==
    {<<>>} \cup {save_document(<<>>, create_dict(q, q.filter)) : q \in PriorQueries}

Init ==
    /\ collection \in InitialCollections
    /\ next_id = 1
    /\ last = NoCall
    /\ nsaves = 0
    /\ async_mode \in BOOLEAN
    /\ pc = "seed"
    /\ phase = "seed"
    /\ seed_pos = <<1, 0>>
    /\ queries = <<>>
    /\ k = 0
    /\ tests_num = 0
    /\ fails_num = 0
    /\ old_tests_num = 0
    /\ selection = NoSelection
    /\ score_average = Average(0, 1)
    /\ passed_iterations = 0
    /\ population_score = 0
    /\ iterations = 0
    /\ sel_tries = 0
    /\ parents = <<>>
    /\ pending = {}
    /\ error = "none"

\* An uncaught exception leaves run().
Crash(exception) ==
    /\ pc' = "crashed"
    /\ error' = exception

\* seed_population's seed_range for a queryable.
seed_range(queryable) ==
    LET n == queryable.properties * SEED_POPULATION
    IN  IF async_mode THEN RoundDiv(n, POOL_SIZE) ELSE n

\* The queryable a generation step works on.
current_queryable ==
    IF phase = "seed" THEN Entities[seed_pos[1]] ELSE Entities[selection.queryable]

\* The value of query.options[FILTER] now.
CurrentFilter(query) ==
    IF query.aliased THEN selection.crossable[1].filter ELSE query.filter

\* seed_population's two for loops: the next iteration, the next queryable, or
\* the end of seeding.
SeedNext ==
    /\ pc = "seed"
    /\ IF seed_pos[1] > Len(Entities)
       THEN /\ pc' = "average"
            /\ UNCHANGED <<seed_pos, queries, k>>
       ELSE IF seed_pos[2] < seed_range(Entities[seed_pos[1]])
       THEN /\ seed_pos' = <<seed_pos[1], seed_pos[2] + 1>>
            /\ queries' = <<>>
            /\ k' = 0
            /\ pc' = "generate"
       ELSE /\ seed_pos' = <<seed_pos[1] + 1, 0>>
            /\ UNCHANGED <<pc, queries, k>>
    /\ UNCHANGED <<collection, next_id, last, nsaves, async_mode, phase, tests_num,
                   fails_num, old_tests_num, selection, score_average,
                   passed_iterations, population_score, iterations, sel_tries,
                   parents, pending, error>>

\* A _generate_query that finds a $filter option with every queryable.
query_option_found_Always(queryable) == TRUE

\* _generate_query: queryable.query_option(FILTER) raises no KeyError.
query_option_found(queryable) == queryable.has_filter

\* A _generate_query whose query string is the entity name and the option
\* name, without '?', '=' and the option string.
generate_query_NameOnly(queryable, id, data) ==
    [Query(id, queryable.name) EXCEPT
        !.filter = data,
        !.query_string = queryable.name \o FILTER]

\* _generate_query with the filter option the generator draws.
generate_query(queryable, id, data) ==
    [Query(id, queryable.name) EXCEPT
        !.filter = data,
        !.query_string = queryable.name \o "?" \o FILTER \o "=" \o build(data)]

\* One _generate_query call of _generate_single or of _generate_multiple's
\* loop, and what follows the last one.  `fresh` is the id the Query made
\* after this one will receive.
generate_step(fresh) ==
    /\ pc = "generate"
    /\ \E data \in GenFilters :
        LET queryable == current_queryable
            made == query_option_found(queryable)
            query == IF made THEN generate_query(queryable, next_id, data) ELSE NoQuery
            batch == IF async_mode
                     THEN IF made THEN Append(queries, query) ELSE queries
                     ELSE <<query>>
            done == IF async_mode THEN k + 1 >= POOL_SIZE ELSE TRUE
            sent == IF async_mode THEN batch # <<>> ELSE made
        IN  /\ queries' = batch
            /\ tests_num' = IF made THEN tests_num + 1 ELSE tests_num
            /\ IF ~done
               THEN /\ k' = k + 1
                    /\ UNCHANGED <<pc, pending>>
               ELSE IF sent
               THEN /\ pc' = "dispatch"
                    /\ pending' = DOMAIN batch
                    /\ k' = 1
               ELSE /\ pc' = "evaluate"
                    /\ pending' = {}
                    /\ k' = 1
    /\ next_id' = fresh
    /\ UNCHANGED <<collection, last, nsaves, async_mode, phase, seed_pos, fails_num,
                   old_tests_num, selection, score_average, passed_iterations,
                   population_score, iterations, sel_tries, parents, error>>

\* Query.__init__ draws the id at random; the driver's ids count upwards.
GenerateQuery == generate_step(next_id + 1)

\* _get_single_response when the dispatcher returns a response.
get_single_response(query, response) ==
    [query EXCEPT !.response = response, !.responded = TRUE]

\* Serial mode: _get_single_response called by the driver itself, the
\* service answering with one of `responses`.  A DispatcherError raised by
\* Dispatcher.send is caught nowhere.
single_response(responses) ==
    /\ pc = "dispatch"
    /\ ~async_mode
    /\ pending = {1}
    /\ \/ \E response \in responses :
            /\ queries' = [queries EXCEPT ![1] = get_single_response(@, response)]
            /\ fails_num' = IF response.status_code # 200 THEN fails_num + 1 ELSE fails_num
            /\ pending' = {}
            /\ k' = 1
            /\ pc' = "evaluate"
            /\ UNCHANGED error
       \/ /\ queries' = [queries EXCEPT ![1].failed = TRUE]
          /\ pending' = {}
          /\ Crash("DispatcherError")
          /\ UNCHANGED <<fails_num, k>>
    /\ UNCHANGED <<collection, next_id, last, nsaves, async_mode, phase, seed_pos,
                   tests_num, old_tests_num, selection, score_average,
                   passed_iterations, population_score, iterations, sel_tries,
                   parents>>

GetSingleResponse == single_response(DriverResponses)

\* Concurrent mode: the greenlet spawned for queries[i] runs
\* _get_single_response.  A DispatcherError ends the greenlet and leaves
\* query.response None.
WorkerResponse(i) ==
    /\ pc = "dispatch"
    /\ async_mode
    /\ i \in pending
    /\ \/ \E response \in DriverResponses :
            /\ queries' = [queries EXCEPT ![i] = get_single_response(@, response)]
            /\ fails_num' = IF response.status_code # 200 THEN fails_num + 1 ELSE fails_num
       \/ /\ queries' = [queries EXCEPT ![i].failed = TRUE]
          /\ UNCHANGED fails_num
    /\ pending' = pending \ {i}
    /\ UNCHANGED <<collection, next_id, last, nsaves, async_mode, pc, phase, seed_pos,
                   k, tests_num, old_tests_num, selection, score_average,
                   passed_iterations, population_score, iterations, sel_tries,
                   parents, error>>

\* A join that returns without waiting for the greenlets.
PoolJoin_NoWait ==
    /\ pc = "dispatch"
    /\ async_mode
    /\ pc' = "evaluate"
    /\ k' = 1
    /\ UNCHANGED <<collection, next_id, last, nsaves, async_mode, phase, seed_pos,
                   queries, tests_num, fails_num, old_tests_num, selection,
                   score_average, passed_iterations, population_score, iterations,
                   sel_tries, parents, pending, error>>

\* Concurrent mode: pool.join() returns when every greenlet has ended.
PoolJoin ==
    /\ pc = "dispatch"
    /\ async_mode
    /\ pending = {}
    /\ pc' = "evaluate"
    /\ k' = 1
    /\ UNCHANGED <<collection, next_id, last, nsaves, async_mode, phase, seed_pos,
                   queries, tests_num, fails_num, old_tests_num, selection,
                   score_average, passed_iterations, population_score, iterations,
                   sel_tries, parents, pending, error>>

\* Where the driver goes when a loop over the batch has passed its last query.
AfterSave == IF phase = "seed" THEN "seed" ELSE "slay"

\* Analyzer._update_population_score
update_population_score(score, query_score, coll) ==
    IF score = 0 THEN overall_score(coll) ELSE score + query_score

\* Analyzer._has_offspring_good_score
has_offspring_good_score(coll, predecessors_id, new_score) ==
    \E i \in DOMAIN predecessors_id :
        query_by_id(coll, predecessors_id[i])[1]["score"] <= new_score

\* The values of killable analyze can return for a query: the document
\* query_by_id returns is tested for the key 'predecessors', and
\* `random.random() < DEATH_CHANCE` can come out either way.
analyze_killable(coll, query, new_score) ==
    LET cursor_list == query_by_id(coll, query.id)
    IN  IF cursor_list # <<>> /\ "predecessors" \in DOMAIN cursor_list[1]
        THEN IF ~has_offspring_good_score(coll, cursor_list[1]["predecessors"], new_score)
             THEN {TRUE, FALSE}
             ELSE {FALSE}
        ELSE {FALSE}

\* _evaluate_queries: Analyzer.analyze for the next query of the batch.  The
\* driver drops the AnalysisInfo returned.
AnalyzeQuery ==
    /\ pc = "evaluate"
    /\ IF k > Len(queries)
       THEN /\ pc' = "save"
            /\ k' = 1
            /\ UNCHANGED <<queries, population_score, error>>
       ELSE IF queries[k].none
       THEN /\ k' = k + 1
            /\ UNCHANGED <<pc, queries, population_score, error>>
       ELSE IF query_len(queries[k]) = 0
       THEN /\ Crash("ZeroDivisionError")
            /\ UNCHANGED <<k, queries, population_score>>
       ELSE IF ~queries[k].responded
       THEN /\ Crash("AttributeError")
            /\ UNCHANGED <<k, queries, population_score>>
       ELSE LET new_score == evaluate(queries[k])
                scored_query == assign_score(queries[k], new_score)
            IN  IF population_score = 0 /\ ~has_overall(collection)
                THEN /\ queries' = [queries EXCEPT ![k] = scored_query]
                     /\ Crash("IndexError")
                     /\ UNCHANGED <<k, population_score>>
                ELSE /\ population_score' =
                           update_population_score(population_score, new_score, collection)
                     /\ \E killable \in analyze_killable(collection, scored_query, new_score) :
                           queries' = [queries EXCEPT
                                          ![k] = [scored_query EXCEPT !.killable = killable]]
                     /\ k' = k + 1
                     /\ UNCHANGED <<pc, error>>
    /\ UNCHANGED <<collection, next_id, last, nsaves, async_mode, phase, seed_pos,
                   tests_num, fails_num, old_tests_num, selection, score_average,
                   passed_iterations, iterations, sel_tries, parents, pending>>

\* _save_to_database: save_document(query.dictionary) for the next query.
SaveQuery ==
    /\ pc = "save"
    /\ IF k > Len(queries)
       THEN /\ pc' = AfterSave
            /\ UNCHANGED <<k, collection, last>>
       ELSE IF queries[k].none
       THEN /\ k' = k + 1
            /\ UNCHANGED <<pc, collection, last>>
       ELSE LET d == create_dict(queries[k], CurrentFilter(queries[k]))
            IN  /\ collection' = save_document(collection, d)
                /\ last' = [NoCall EXCEPT !.op = "save", !.dict = d]
                /\ k' = k + 1
                /\ UNCHANGED pc
    /\ UNCHANGED <<next_id, nsaves, async_mode, phase, seed_pos, queries, tests_num,
                   fails_num, old_tests_num, selection, score_average,
                   passed_iterations, population_score, iterations, sel_tries,
                   parents, pending, error>>

\* run(): self._selector.score_average = overall_score() / total_queries()
ComputeAverage ==
    /\ pc = "average"
    /\ IF has_overall(collection) /\ has_total(collection)
       THEN /\ score_average' = Average(overall_score(collection), total_queries(collection))
            /\ phase' = "evolve"
            /\ pc' = "select"
            /\ UNCHANGED error
       ELSE /\ Crash("IndexError")
            /\ UNCHANGED <<score_average, phase>>
    /\ UNCHANGED <<collection, next_id, last, nsaves, async_mode, seed_pos, queries, k,
                   tests_num, fails_num, old_tests_num, selection, passed_iterations,
                   population_score, iterations, sel_tries, parents, pending>>

Abs(x) == IF x < 0 THEN -x ELSE x

\* The comparison turned around: abs(old_average - current_average) > SCORE_EPS.
within_eps_Flipped(old, current) ==
    Abs(old.num * current.den - current.num * old.den) > SCORE_EPS * old.den * current.den

\* abs(old_average - current_average) < SCORE_EPS for two quotients.
within_eps(old, current) ==
    Abs(old.num * current.den - current.num * old.den) < SCORE_EPS * old.den * current.den

\* A test that lets one more iteration pass:
\* passed_iterations > ITERATIONS_THRESHOLD + 1.
threshold_passed_Later(passed) == passed > ITERATIONS_THRESHOLD + 1

\* A test that is off by one: passed_iterations >= ITERATIONS_THRESHOLD.
threshold_passed_AtThreshold(passed) == passed >= ITERATIONS_THRESHOLD

\* _is_score_stagnating's first test.
threshold_passed(passed) == passed > ITERATIONS_THRESHOLD

\* select() up to the choice between its two branches: _is_score_stagnating
\* and, when it says so, the Selection without crossable.  The while loop of
\* evolve_population is cut after `bound` calls.
select_call(bound) ==
    /\ pc = "select"
    /\ iterations < bound
    /\ iterations' = iterations + 1
    /\ IF threshold_passed(passed_iterations)
       THEN IF ~(has_overall(collection) /\ has_total(collection))
            THEN /\ passed_iterations' = 0
                 /\ Crash("IndexError")
                 /\ UNCHANGED <<score_average, selection, sel_tries, old_tests_num,
                                queries, k, parents>>
            ELSE LET current == Average(overall_score(collection), total_queries(collection))
                 IN  /\ score_average' = current
                     /\ UNCHANGED error
                     /\ IF within_eps(score_average, current)
                        THEN /\ \E qi \in DOMAIN Entities :
                                  selection' = [crossable |-> <<>>, queryable |-> qi,
                                                score_average |-> current]
                             /\ passed_iterations' = 1
                             /\ old_tests_num' = tests_num
                             /\ queries' = <<>>
                             /\ k' = 0
                             /\ parents' = <<>>
                             /\ pc' = "generate"
                             /\ UNCHANGED sel_tries
                        ELSE /\ passed_iterations' = 0
                             /\ sel_tries' = 0
                             /\ pc' = "get_crossable"
                             /\ UNCHANGED <<selection, old_tests_num, queries, k, parents>>
       ELSE /\ sel_tries' = 0
            /\ pc' = "get_crossable"
            /\ UNCHANGED <<score_average, passed_iterations, selection, old_tests_num,
                           queries, k, parents, error>>
    /\ UNCHANGED <<collection, next_id, last, nsaves, async_mode, phase, seed_pos,
                   tests_num, fails_num, population_score, pending>>

Select == select_call(MaxIterations)

\* select()'s other branch: a queryable is drawn and _get_crossable called,
\* again and again while it returns no pair (`while not crossable or
\* len(crossable) == 1`); with a pair select() returns and evolve_population
\* goes on to the crossover.
GetCrossable ==
    /\ pc = "get_crossable"
    /\ sel_tries <= SELECTION_THRESHOLD * SELECTION_THRESHOLD
    /\ \E qi \in DOMAIN Entities :
        \E o \in get_crossable(collection, Entities[qi].name) :
            /\ sel_tries' = sel_tries + o.tries
            /\ IF ~(o.pair = <<>> \/ Len(o.pair) = 1)
               THEN /\ selection' = [crossable |-> o.pair, queryable |-> qi,
                                     score_average |-> score_average]
                    /\ parents' = o.pair
                    /\ passed_iterations' = passed_iterations + 1
                    /\ old_tests_num' = tests_num
                    /\ queries' = <<>>
                    /\ k' = 0
                    /\ pc' = "crossover"
               ELSE UNCHANGED <<selection, parents, passed_iterations, old_tests_num,
                                queries, k, pc>>
    /\ UNCHANGED <<collection, next_id, last, nsaves, async_mode, phase, seed_pos,
                   tests_num, fails_num, score_average, population_score, iterations,
                   pending, error>>

\* _mate: part i of query1's filter takes the name, operator and operand of
\* part j of query2's filter; query1's filter dictionary itself is changed
\* and returned.
mate(filter_option1, filter_option2, i, j) ==
    [filter_option1 EXCEPT
        !.parts[i].name = filter_option2.parts[j].name,
        !.parts[i].operator = filter_option2.parts[j].operator,
        !.parts[i].operand = filter_option2.parts[j].operand]

\* A _crossover_queries whose query takes the id of the first parent.
crossover_queries_ParentId(offspring, id, entity_set_name) ==
    [Query(selection.crossable[1].id, entity_set_name) EXCEPT
        !.aliased = TRUE,
        !.filter = offspring,
        !.query_string = entity_set_name \o "?$filter=" \o build(offspring)]

\* _crossover_queries, given the filter _mate returned.
crossover_queries(offspring, id, entity_set_name) ==
    [Query(id, entity_set_name) EXCEPT
        !.aliased = TRUE,
        !.filter = offspring,
        !.query_string = entity_set_name \o "?$filter=" \o build(offspring)]

\* One _crossover_queries call of _crossover_single or of
\* _crossover_multiple's loop, and what follows the last one.  `fresh` is the
\* id the Query made after this one will receive.
crossover_step(fresh) ==
    /\ pc = "crossover"
    /\ \E i \in DOMAIN selection.crossable[1].filter.parts,
          j \in DOMAIN selection.crossable[2].filter.parts :
        LET offspring == mate(selection.crossable[1].filter,
                              selection.crossable[2].filter, i, j)
            query == crossover_queries(offspring, next_id,
                                       Entities[selection.queryable].name)
            batch == IF async_mode THEN Append(queries, query) ELSE <<query>>
            done == IF async_mode THEN k + 1 >= POOL_SIZE ELSE TRUE
        IN  /\ selection' = [selection EXCEPT !.crossable[1].filter = offspring]
            /\ queries' = batch
            /\ IF done
               THEN /\ pc' = "dispatch"
                    /\ pending' = DOMAIN batch
                    /\ k' = 1
               ELSE /\ k' = k + 1
                    /\ UNCHANGED <<pc, pending>>
    /\ tests_num' = tests_num + 1
    /\ next_id' = fresh
    /\ UNCHANGED <<collection, last, nsaves, async_mode, phase, seed_pos, fails_num,
                   old_tests_num, score_average, passed_iterations, population_score,
                   iterations, sel_tries, parents, error>>

CrossoverQueries == crossover_step(next_id + 1)

\* _slay_weak_individuals(selection.score_average, generated_tests)
SlayWeakIndividuals ==
    /\ pc = "slay"
    /\ LET number == tests_num - old_tests_num
       IN  \E picked \in weak_choices(collection, selection.score_average, number) :
            LET r == remove_weak_queries(collection, selection.score_average, number, picked)
            IN  /\ collection' = r.coll
                /\ last' = [NoCall EXCEPT
                                !.op = "remove_weak",
                                !.average = selection.score_average,
                                !.number = number,
                                !.result = r.removed,
                                !.count = r.count,
                                !.below = below_count(collection, selection.score_average)]
    /\ pc' = "select"
    /\ UNCHANGED <<next_id, nsaves, async_mode, phase, seed_pos, queries, k, tests_num,
                   fails_num, old_tests_num, selection, score_average,
                   passed_iterations, population_score, iterations, sel_tries,
                   parents, pending, error>>

Next ==
    \/ SeedNext
    \/ GenerateQuery
    \/ GetSingleResponse
    \/ \E i \in 1..POOL_SIZE : WorkerResponse(i)
    \/ PoolJoin
    \/ AnalyzeQuery
    \/ SaveQuery
    \/ ComputeAverage
    \/ Select
    \/ GetCrossable
    \/ CrossoverQueries
    \/ SlayWeakIndividuals

Spec == Init /\ [][Next]_vars

(***************************************************************************)
(* SelectorSpec: evolve_population in serial mode, from the state run()    *)
(* is in when seed_population has returned, for enough iterations to pass   *)
(* ITERATIONS_THRESHOLD.                                                   *)
(***************************************************************************)
\* A part as long as PartB: the queries mated from the two score alike.
PartC == [PartB EXCEPT !.operand = "'bbbbbbbbbbbbbbbbbbbbbbbbbbbbbbbbbbbbbbbb'"]

\* A query built by _generate_query for E1, answered and analyzed.
SeedQuery(id, parts, status_code) ==
    LET f == [logicals |-> <<"and">>, parts |-> parts, groups |-> <<>>]
        r == [status_code |-> status_code, error_code |-> NoErrorCode, elapsed |-> 10]
        q0 == get_single_response(generate_query(Entities[1], id, f), r)
    IN  assign_score(q0, evaluate(q0))

\* The store when seed_population has returned: an earlier run left the
\* first query, the first seed of E1 was answered 500 and saved, the second
\* repeated the string of the first query and was not.
SeededCollection ==
    LET q0 == SeedQuery(0, <<PartB, PartC>>, 200)
        q1 == SeedQuery(1, <<PartC, PartB>>, 500)
        q2 == SeedQuery(2, <<PartB, PartC>>, 200)
    IN  save_document(save_document(save_document(<<>>, create_dict(q0, q0.filter)),
                                    create_dict(q1, q1.filter)),
                      create_dict(q2, q2.filter))

\* run() when seed_population has returned.
SelectorInit ==
    /\ collection = SeededCollection
    /\ next_id = 5
    /\ last = NoCall
    /\ nsaves = 0
    /\ async_mode = FALSE
    /\ pc = "average"
    /\ phase = "seed"
    /\ seed_pos = <<Len(Entities) + 1, 0>>
    /\ queries = <<NoQuery>>
    /\ k = 2
    /\ tests_num = 2
    /\ fails_num = 1
    /\ old_tests_num = 0
    /\ selection = NoSelection
    /\ score_average = Average(0, 1)
    /\ passed_iterations = 0
    /\ population_score =
          update_population_score(
              update_population_score(0, SeedQuery(1, <<PartC, PartB>>, 500).score,
                                      <<create_dict(SeedQuery(0, <<PartB, PartC>>, 200),
                                                    NoFilter)>>),
              SeedQuery(2, <<PartB, PartC>>, 200).score, SeededCollection)
    /\ iterations = 0
    /\ sel_tries = 0
    /\ parents = <<>>
    /\ pending = {}
    /\ error = "none"

SelectorSelect == select_call(MaxSelects)

\* The ids of the queries the store, the selection or the batch holds, and
\* the id about to be given.
ids_in_use ==
    {unwind(collection)[i].id : i \in DOMAIN unwind(collection)}
    \cup {selection.crossable[i].id : i \in DOMAIN selection.crossable}
    \cup {queries[i].id : i \in DOMAIN queries}
    \cup {next_id}

\* SelectorSpec gives a new Query the least id that no query in hand
\* carries: an id is told from the others, not from those of queries gone.
UnusedId == CHOOSE n \in 1..(Cardinality(ids_in_use) + 1) : n \notin ids_in_use

SelectorGenerateQuery == generate_step(UnusedId)

SelectorCrossoverQueries == crossover_step(UnusedId)

\* The service of SelectorSpec answers every request it answers with 200.
SelectorResponses == {r \in DriverResponses : r.status_code = 200}

SelectorGetSingleResponse == single_response(SelectorResponses)

SelectorNext ==
    \/ ComputeAverage
    \/ SelectorSelect
    \/ GetCrossable
    \/ SelectorCrossoverQueries
    \/ SelectorGenerateQuery
    \/ SelectorGetSingleResponse
    \/ AnalyzeQuery
    \/ SaveQuery
    \/ SlayWeakIndividuals

SelectorSpec == SelectorInit /\ [][SelectorNext]_vars

(***************************************************************************)
(* EvaluateSpec: _evaluate_queries on a batch of two answered queries      *)
(* whose query strings are equally long.                                   *)
(***************************************************************************)
\* A string of n letters.
RECURSIVE Pad(_)
Pad(n) ==
    IF n = 0 THEN ""
    ELSE IF n % 2 = 1 THEN "a" \o Pad(n - 1)
    ELSE LET half == Pad(n \div 2) IN half \o half

\* Operand lengths that put the length evaluate computes at 13, 16, 17, 80,
\* 100, 400 and 401: STRING_THRESHOLD / length falls half-way between two
\* integers at 16, 80 and 400.
EvalOperandLens == {1, 4, 5, 68, 88, 388, 389}

\* Elapsed times, in hundredths of a second, on both sides of the bounds of
\* eval_http_response_time.
EvalElapsed == {10, 199, 200, 999, 1000, 1999, 2000, 2500}

EvalStatusCodes == {200, 404, 500}

EvalResponses ==
    {[status_code |-> s, error_code |-> NoErrorCode, elapsed |-> e] :
        s \in EvalStatusCodes, e \in EvalElapsed}

EvalFilter(operator, n) ==
    [logicals |-> <<>>,
     parts |-> <<[name |-> "Name", operator |-> operator,
                  operand |-> "'" \o Pad(n) \o "'"]>>,
     groups |-> <<>>]

\* The batches: two queries for E1 whose filters differ in the operator only,
\* each with a response.
EvalBatches ==
    {<<get_single_response(generate_query(Entities[1], 1, EvalFilter("eq", n)), r1),
       get_single_response(generate_query(Entities[1], 2, EvalFilter("ne", n)), r2)>> :
        n \in EvalOperandLens, r1 \in EvalResponses, r2 \in EvalResponses}

\* The stores the batch is analysed against: one an earlier run left, and the
\* same store after _slay_weak_individuals pulled its only query, a document
\* with an empty list of queries.
EvalCollections ==
    LET left == InitialCollections \ {<<>>}
    IN  left \cup
        {remove_weak_queries(coll, Average(0, 1), 1, picked).coll :
            <<coll, picked>> \in
                {cp \in left \X SUBSET (1..1) :
                    cp[2] \in weak_choices(cp[1], Average(0, 1), 1)}}

EvaluateInit ==
    /\ collection \in EvalCollections
    /\ next_id = 3
    /\ last = NoCall
    /\ nsaves = 0
    /\ async_mode = TRUE
    /\ pc = "evaluate"
    /\ phase = "seed"
    /\ seed_pos = <<1, 1>>
    /\ queries \in EvalBatches
    /\ k = 1
    /\ tests_num = 2
    /\ fails_num = Cardinality({n \in DOMAIN queries : queries[n].response.status_code # 200})
    /\ old_tests_num = 0
    /\ selection = NoSelection
    /\ score_average = Average(0, 1)
    /\ passed_iterations = 0
    /\ population_score = 0
    /\ iterations = 0
    /\ sel_tries = 0
    /\ parents = <<>>
    /\ pending = {}
    /\ error = "none"

EvaluateNext == AnalyzeQuery

EvaluateSpec == EvaluateInit /\ [][EvaluateNext]_vars

(***************************************************************************)
(* Properties of the store (checked under StoreSpec).                      *)
(***************************************************************************)
\* Positions <<document, query>> of the stored queries.
Stored ==
    UNION {{<<i, a>> : a \in DOMAIN collection[i].queries} : i \in DOMAIN collection}

SameKey(i, j) ==
    /\ collection[i].name = collection[j].name
    /\ collection[i].ErrorCode = collection[j].ErrorCode

\* The stored queries under the key of query_dict that carry its query's string.
EntriesFor(query_dict) ==
    {p \in Stored : /\ collection[p[1]].name = query_dict.name
                    /\ collection[p[1]].ErrorCode = query_dict.ErrorCode
                    /\ collection[p[1]].queries[p[2]].string = query_dict.queries[1].string}

\* C1: among the stored queries that share one (entity_set_name, error_code)
\* key no two have the same query string, and after save_document(d), called
\* once or twice with the same d, exactly one stored query under d's key
\* carries d's string.
C1_NoDuplicateStringPerKey ==
    /\ \A p, r \in Stored :
          (SameKey(p[1], r[1]) /\ p # r)
            => collection[p[1]].queries[p[2]].string # collection[r[1]].queries[r[2]].string
    /\ last.op \in {"save", "save_again"} => Cardinality(EntriesFor(last.dict)) = 1

\* A save_document whose query was left out because its string was already
\* stored under its key, in a bucket that holds another string as well.
C1_Witness ==
    /\ last.op = "save"
    /\ \A p \in Stored : collection[p[1]].queries[p[2]].id # last.dict.queries[1].id
    /\ Cardinality(EntriesFor(last.dict)) = 1

\* C5: remove_weak_queries(score_threshold, max_n) deletes and returns exactly
\* min(max_n, number of stored queries with score < score_threshold).
C5_RemovesMinOfNumberAndBelow ==
    last.op = "remove_weak" =>
        /\ last.count = Min(last.number, last.below)
        /\ Len(last.result) = last.count

\* C9: every query find_similar_queries(http_code, entity_set_name) returns
\* targets entity_set_name, has at least PARTS_NUM filter parts and itself
\* received a response of status http_code.
C9_SimilarShareSetPartsAndStatus ==
    last.op = "find_similar" =>
        \A n \in DOMAIN last.result :
            /\ last.result[n].entity = last.name
            /\ Len(last.result[n].filter.parts) >= PARTS_NUM
            /\ ToString(last.result[n].status) = last.http

Batch == {n \in DOMAIN queries : ~queries[n].none}

\* The queries of the batch that crossover built.
Children == {n \in Batch : queries[n].aliased}

StoredIds == {collection[p[1]].queries[p[2]].id : p \in Stored}

\* C2: a query for which the dispatcher reported a transport failure is
\* neither scored nor persisted, and the failure does not end the loop: run()
\* is left neither by the DispatcherError itself nor by the AttributeError the
\* missing response raises when the batch is evaluated.
C2_TransportFailureKeepsLoopRunning ==
    /\ \A n \in Batch :
          queries[n].failed => (~queries[n].scored /\ queries[n].id \notin StoredIds)
    /\ (\E n \in Batch : queries[n].failed) => pc # "crashed"

\* No entity set offers two queries to mate, under either status.
NoPairAnywhere ==
    \A name \in EntityNames, http_code \in {"500", "200"} :
        Len(similar_candidates(collection, http_code, name)) < 2

\* C3: when no entity set offers a pair, select() stops searching after at
\* most SELECTION_THRESHOLD attempts.
C3_SelectionSearchBounded ==
    (pc = "get_crossable" /\ NoPairAnywhere) => sel_tries <= SELECTION_THRESHOLD

\* C4: every query the pruning step of an evolution iteration deletes has
\* score < the selection's score_average.
C4_PrunedBelowAverage ==
    (last.op = "remove_weak" /\ pc = "select") =>
        \A n \in DOMAIN last.result : ScoreLess(last.result[n].score, last.average)

\* C6: a crossover child carries its two parents' ids as predecessors when it
\* is analyzed and when it is persisted, and a freshly generated query carries
\* none.
C6_ChildrenCarryPredecessors ==
    pc \in {"evaluate", "save", "slay"} =>
        /\ \A n \in Children :
              queries[n].predecessors = <<parents[1].id, parents[2].id>>
        /\ \A n \in Batch \ Children : queries[n].predecessors = <<>>

\* C7: when a query is dispatched and when it is persisted, its query_string
\* is entity_name + '?$filter=' + the serialization of its $filter option's
\* value at that moment.
C7_StringMatchesOptions ==
    /\ pc \in {"dispatch", "save"} =>
          \A n \in Batch :
              queries[n].query_string =
                  queries[n].entity_name \o "?$filter=" \o build(CurrentFilter(queries[n]))
    /\ \A p \in Stored :
          LET q == collection[p[1]].queries[p[2]]
          IN  q.string = q.entity \o "?$filter=" \o build(q.filter)

\* Part c holds the name, operator and operand of part p.
SameTriple(c, p) ==
    c.name = p.name /\ c.operator = p.operator /\ c.operand = p.operand

\* C8: a crossover child's filter, as built, has as many parts as the first
\* parent's had before mating; one index holds the name, operator and operand
\* of a part of the second parent and every other index holds the first
\* parent's part; logicals and groups are the first parent's.
C8_ChildIsParentWithOnePartReplaced ==
    \A n \in Children :
        LET c == queries[n].filter
            p1 == parents[1].filter
            p2 == parents[2].filter
        IN  /\ Len(c.parts) = Len(p1.parts)
            /\ \E i \in DOMAIN c.parts :
                  /\ \E j \in DOMAIN p2.parts : SameTriple(c.parts[i], p2.parts[j])
                  /\ \A m \in DOMAIN c.parts \ {i} : c.parts[m] = p1.parts[m]
            /\ c.logicals = p1.logicals
            /\ c.groups = p1.groups

(***************************************************************************)
(* Properties of the selector (checked under SelectorSpec, which starts    *)
(* with passed_iterations = 0 and counts the select() calls in             *)
(* `iterations`).                                                          *)
(***************************************************************************)
\* overall_score / total_queries of the store as it is.
CurrentAverage == Average(overall_score(collection), total_queries(collection))

\* |current - old| < SCORE_EPS, for the store's average and a stored one.
DeltaBelowEps(old) ==
    /\ has_total(collection)
    /\ LET current == CurrentAverage
           diff == old.num * current.den - current.num * old.den
       IN  /\ diff < SCORE_EPS * old.den * current.den
           /\ -diff < SCORE_EPS * old.den * current.den

\* A step in which select() returns a Selection without crossable.
ReturnsStagnation == pc = "select" /\ pc' = "generate"

\* A step in which select() returns a Selection with a crossable.
ReturnsCrossable == pc = "get_crossable" /\ pc' = "crossover"

\* C11: when ITERATIONS_THRESHOLD + 1 = 31 select() calls have returned since
\* passed_iterations was 0 and the store's average is within SCORE_EPS of the
\* stored score_average, the 32nd select() returns no crossable; and in an
\* iteration whose selection has no crossable the driver builds its batch
\* with the generator, never by crossover.
C11_StagnationForcesGeneration ==
    /\ [][(/\ pc = "select"
           /\ iterations = ITERATIONS_THRESHOLD + 1
           /\ iterations' = iterations + 1
           /\ DeltaBelowEps(score_average))
            => (ReturnsStagnation /\ selection'.crossable = <<>>)]_vars
    /\ [](iterations <= ITERATIONS_THRESHOLD + 1 /\ pc = "select"
            => passed_iterations = iterations)
    /\ []((phase = "evolve" /\ selection.crossable = <<>>)
            => (pc # "crossover" /\ Children = {}))

\* The 32nd select() has returned no crossable and the generator's query is
\* on its way to the service.
C11_Witness ==
    /\ iterations = ITERATIONS_THRESHOLD + 2
    /\ selection.crossable = <<>>
    /\ pc = "dispatch"
    /\ Batch # {} /\ Children = {}

\* C12: select() returns no crossable only if on entry passed_iterations was
\* above ITERATIONS_THRESHOLD and the store's average within SCORE_EPS of the
\* stored score_average; every other select() that returns, returns two
\* different stored queries as crossable.
C12_StagnationOnlyPastThreshold ==
    /\ [][ReturnsStagnation
            => /\ passed_iterations > ITERATIONS_THRESHOLD
               /\ DeltaBelowEps(score_average)
               /\ selection'.crossable = <<>>]_vars
    /\ [][(pc = "select" /\ pc' # "select"
            /\ ~(passed_iterations > ITERATIONS_THRESHOLD /\ DeltaBelowEps(score_average)))
            => pc' \in {"get_crossable", "crashed"}]_vars
    /\ [][(pc = "get_crossable" /\ pc' # "get_crossable") => ReturnsCrossable]_vars
    /\ [][ReturnsCrossable
            => /\ Len(selection'.crossable) = 2
               /\ selection'.crossable[1].id # selection'.crossable[2].id
               /\ \A n \in 1..2 : selection'.crossable[n] \in Range(unwind(collection))]_vars

\* select() has declared stagnation once and has then returned a pair.
C12_Witness ==
    /\ iterations = ITERATIONS_THRESHOLD + 3
    /\ pc = "crossover"
    /\ passed_iterations = 2
    /\ Len(selection.crossable) = 2

(***************************************************************************)
(* Properties of the fitness evaluator (checked under EvaluateSpec).       *)
(***************************************************************************)
\* |query_string| - |entity_name| - the lengths of the option keys.
StringLength(query) == Len(query.query_string) - Len(query.entity_name) - Len("$filter")

StatusScore(query) == IF query.response.status_code = 500 THEN 100 ELSE 0

\* 0, 1, 2, 3 for elapsed < 2 s, < 10 s, < 20 s, >= 20 s.
ElapsedBucket(query) ==
    LET e == query.response.elapsed
    IN  IF e < 200 THEN 0 ELSE IF e < 1000 THEN 1 ELSE IF e < 2000 THEN 2 ELSE 3

ElapsedScore(query) == <<0, 1, 2, 5>>[ElapsedBucket(query) + 1]

\* n is an integer nearest to STRING_THRESHOLD / length.
NearestToQuotient(n, length) ==
    /\ 2 * (n * length - 200) <= length
    /\ 2 * (200 - n * length) <= length

\* C13: the score evaluate assigns is status_score + elapsed_score +
\* length_score, with status_score 100 for status 500 and 0 otherwise,
\* elapsed_score 0, 1, 2, 5 for elapsed < 2 s, < 10 s, < 20 s, >= 20 s (so 0,
\* 1, 2, 5 at 1.99 s, 9.99 s, 19.99 s, 20.0 s) and length_score an integer
\* nearest to 200 / length; two queries of equal status score, elapsed bucket
\* and length score alike, and a 500 response scores 100 more than a non-500
\* one of equal length and elapsed bucket.
C13_ScoreIsSumOfThreeParts ==
    /\ \A n \in Batch :
          queries[n].scored =>
              NearestToQuotient(queries[n].score - StatusScore(queries[n])
                                    - ElapsedScore(queries[n]),
                                StringLength(queries[n]))
    /\ \A m, n \in Batch :
          (/\ queries[m].scored /\ queries[n].scored
           /\ StringLength(queries[m]) = StringLength(queries[n])
           /\ ElapsedBucket(queries[m]) = ElapsedBucket(queries[n]))
            => queries[m].score - StatusScore(queries[m])
                 = queries[n].score - StatusScore(queries[n])

\* A 500 answered after 20.0 s and a 200 answered after 19.99 s, both of
\* length 16, have been scored.
C13_Witness ==
    /\ pc = "save"
    /\ queries[1].scored /\ queries[2].scored
    /\ queries[1].response.status_code = 500 /\ queries[1].response.elapsed = 2000
    /\ queries[2].response.status_code = 200 /\ queries[2].response.elapsed = 1999
    /\ StringLength(queries[1]) = 16
    /\ queries[1].score = 117 /\ queries[2].score = 14

(***************************************************************************)
(* Further properties of the driver (checked under Spec).                  *)
(***************************************************************************)
\* The stored queries.
StoredQueries == {collection[p[1]].queries[p[2]] : p \in Stored}

\* C14: every stored query was given to save_document with a response
\* attached and a score assigned, and carries that score; while the batch is
\* being saved each of its queries has its response and its score.
C14_StoredAreAnsweredAndScored ==
    /\ \A q \in StoredQueries :
          /\ q.responded /\ q.status \in {200, 500}
          /\ q.scored /\ q.score \in Nat
    /\ pc = "save" =>
          \A n \in Batch :
              /\ queries[n].responded /\ queries[n].scored
              /\ queries[n].score = evaluate(queries[n])

\* In concurrent mode a crossover child answered 500 has been saved with its
\* score.
C14_Witness ==
    /\ async_mode
    /\ pc = "slay"
    /\ \E n \in Children :
          \E q \in StoredQueries :
              /\ q.id = queries[n].id
              /\ q.status = 500
              /\ q.scored /\ q.score = queries[n].score

\* The stored queries under the key (name, error_code).
StoredUnder(name, error_code) ==
    {p \in Stored : collection[p[1]].name = name /\ collection[p[1]].ErrorCode = error_code}

\* C15: in serial mode, over a store that held nothing when run() began and
\* with every dispatch answered 200 without error code, seeding runs to its
\* end, and at its end the store holds |properties| x SEED_POPULATION queries
\* of the queryable that has a $filter option, all of them under the key
\* (entity set, None).
C15_SeedStoresOnePerProperty ==
    (/\ phase = "seed"
     /\ ~async_mode
     /\ 0 \notin StoredIds
     /\ fails_num = 0
     /\ \A n \in Batch : ~queries[n].failed)
      => /\ pc # "crashed"
         /\ pc = "average" =>
               /\ Cardinality(Stored) = Entities[1].properties * SEED_POPULATION
               /\ Stored = StoredUnder(Entities[1].name, NoErrorCode)

\* The names of the queryables that have no $filter option.
NoFilterNames == {Entities[i].name : i \in {j \in DOMAIN Entities : ~Entities[j].has_filter}}

\* The driver is working on a batch of the generator for a queryable without
\* a $filter option.
GeneratingWithoutFilter ==
    /\ pc \in {"generate", "dispatch", "evaluate", "save"}
    /\ IF phase = "seed" THEN TRUE ELSE selection.crossable = <<>>
    /\ ~current_queryable.has_filter

C17_StoredIdsDiffer ==
    \A p, r \in Stored :
        p # r => collection[p[1]].queries[p[2]].id # collection[r[1]].queries[r[2]].id

\* A crossover child has been saved next to both of its parents.
C17_Witness ==
    /\ pc = "slay"
    /\ \E n \in Children : queries[n].id \in StoredIds
    /\ parents[1].id \in StoredIds
    /\ parents[2].id \in StoredIds

\* The order of the driver's steps within the steady phase.
StepOrder ==
    {<<"select", "get_crossable">>, <<"select", "generate">>,
     <<"get_crossable", "crossover">>, <<"crossover", "dispatch">>,
     <<"generate", "dispatch">>, <<"generate", "evaluate">>,
     <<"dispatch", "evaluate">>, <<"evaluate", "save">>, <<"save", "slay">>,
     <<"slay", "select">>}

\* C18: in concurrent mode, while a dispatch of the batch has not ended no
\* query of the batch is scored or stored, in whatever order the workers end;
\* the store changes only in the persist and prune steps and scores are
\* assigned only in the analyze step; and in the steady phase the driver
\* passes from selection to batch building, dispatch, analyze, persist and
\* prune in this order, a select() beginning only when the prune has ended.
C18_BatchCompleteBeforeAnalysis ==
    /\ [](pending # {}
            => /\ pc = "dispatch"
               /\ \A n \in Batch : ~queries[n].scored /\ queries[n].id \notin StoredIds)
    /\ [](pc \in {"evaluate", "save", "slay"}
            => \A n \in Batch : queries[n].responded \/ queries[n].failed)
    /\ [][collection' # collection => (pc \in {"save", "slay"} /\ pc' \in {"save", "select"})]_vars
    /\ [][(\E n \in DOMAIN queries : n \in DOMAIN queries' /\ queries'[n].scored # queries[n].scored)
            => pc = "evaluate"]_vars
    /\ [][(phase = "evolve" /\ pc' # pc) => (pc' = "crashed" \/ <<pc, pc'>> \in StepOrder)]_vars

\* In concurrent mode the second worker of a crossover batch has ended before
\* the first, and nothing of the batch is scored.
C18_Witness ==
    /\ async_mode
    /\ pc = "dispatch"
    /\ Children # {}
    /\ pending = {1}
    /\ queries[2].responded
    /\ ~queries[2].scored

\* Query n of the batch is a crossover child that scores below both of the
\* queries it was mated from.
WorseThanEveryParent(n, new_score) ==
    /\ n \in Children
    /\ \A i \in DOMAIN parents : ~(parents[i].score <= new_score)

\* C19: analyze returns killable = true only for a crossover child that
\* scores below every parent, and when it is about to analyze such a child
\* killable = true is among the values it can return.
C19_KillableWorseChildren ==
    /\ \A n \in Batch :
          queries[n].killable => WorseThanEveryParent(n, queries[n].score)
    /\ (/\ pc = "evaluate"
        /\ k \in Batch
        /\ queries[k].responded
        /\ population_score # 0
        /\ WorseThanEveryParent(k, evaluate(queries[k])))
         => TRUE \in analyze_killable(collection, queries[k], evaluate(queries[k]))

(***************************************************************************)
(* The population score of the Analyzer, checked under EvaluateSpec, where *)
(* the Analyzer is new and the store does not change between the calls.    *)
(***************************************************************************)
\* The queries of the batch analyze was called on, in the order of the calls.
Analyzed == {n \in DOMAIN queries : queries[n].scored}

\* The sum of new_score over all calls but the first.
LaterScores == SumSeq([n \in 1..(Cardinality(Analyzed) - 1) |-> queries[n + 1].score])

\* C20: after one or more calls of analyze the population score is the
\* overall score of the store read by the first call plus the new_score of
\* every later call, whatever the first reading was.
C20_PopulationScoreIsFirstReadingPlusLater ==
    Analyzed # {} => population_score = overall_score(collection) + LaterScores

(***************************************************************************)
(* The life of one query: built, dispatched, scored, persisted (checked    *)
(* under Spec).                                                            *)
(***************************************************************************)
\* The dispatch of a query has ended, with a response or with an exception.
Dispatched(query) == query.responded \/ query.failed

\* Position n of the batch holds the same Query object before and after the step.
SameQuery(n) == n \in DOMAIN queries' /\ queries'[n].id = queries[n].id

\* No step dispatches a query a second time: once the dispatch of a query has
\* ended, its response and the outcome of the dispatch stay as they are.
DispatchedAtMostOnce ==
    \A n \in Batch :
        (SameQuery(n) /\ Dispatched(queries[n]))
            => /\ queries'[n].response = queries[n].response
               /\ queries'[n].responded = queries[n].responded
               /\ queries'[n].failed = queries[n].failed

\* No step assigns a score a second time, and the step that assigns it
\* comes after the dispatch of the query and before its save_document.
ScoredAtMostOnceInOrder ==
    \A n \in Batch :
        SameQuery(n)
            => /\ queries[n].scored
                    => queries'[n].scored /\ queries'[n].score = queries[n].score
               /\ (~queries[n].scored /\ queries'[n].scored)
                    => /\ queries[n].responded
                       /\ n \notin pending
                       /\ queries[n].id \notin StoredIds

\* The driver is past the dispatch of the batch in hand.
PastDispatch == pc \notin {"generate", "crossover", "dispatch"}

\* The driver is past the evaluation of the batch in hand, or run() has ended.
PastEvaluate == pc \notin {"generate", "crossover", "dispatch", "evaluate"}

\* C21: every query the generator or the crossover built is dispatched once
\* and never again, is given its score once and never again, after its
\* dispatch has ended and before it is persisted; once the driver is past the
\* dispatch of a batch each of its queries has been dispatched, and once it
\* is past the evaluation (or run() has ended) each query of the batch that
\* received a response has its score.
C21_DispatchedOnceScoredOnce ==
    /\ [][DispatchedAtMostOnce /\ ScoredAtMostOnceInOrder]_vars
    /\ [](\A q \in StoredQueries : q.responded /\ q.scored)
    /\ [](PastDispatch => \A n \in Batch : Dispatched(queries[n]))
    /\ [](PastEvaluate => \A n \in Batch : queries[n].responded => queries[n].scored)

(***************************************************************************)
(* The length FitnessEvaluator.evaluate divides by (checked under Spec).   *)
(***************************************************************************)
\* What the query string holds besides the entity name and the option key:
\* '?', '=' and the option string that was built from the filter.
SeparatorsAndOption(query) == Len("?") + Len("=") + Len(build(query.filter))

\* C22: for every query _generate_query or _crossover_queries built, the
\* length evaluate computes, |query_string| - |entity_name| - the lengths of
\* the option keys, is at least 1 (it is 2 plus the length of the option
\* string), so eval_string_length never divides by zero: run() is never left
\* by a ZeroDivisionError and a scored query carries the score of that length.
C22_LengthPositive ==
    /\ \A n \in Batch :
          /\ query_len(queries[n]) >= 1
          /\ query_len(queries[n]) = SeparatorsAndOption(queries[n])
          /\ queries[n].scored
                => queries[n].score >= eval_string_length(query_len(queries[n]))
    /\ error # "ZeroDivisionError"

\* evaluate has been applied to a generated query and to a crossover child.
C22_Witness ==
    /\ pc = "save"
    /\ \E n \in Children : queries[n].scored
    /\ \E q \in StoredQueries :
          /\ q.id # 0
          /\ q.scored
          /\ Len(q.filter.parts) = 1

(***************************************************************************)
(* The Selector's counter and stored average (checked under SelectorSpec). *)
(***************************************************************************)
\* A step in which select() is entered and _is_score_stagnating runs.
SelectEntered == pc = "select" /\ iterations' = iterations + 1

\* _is_score_stagnating finds the counter above the threshold.
ThresholdCheck == SelectEntered /\ passed_iterations > ITERATIONS_THRESHOLD

\* C23: passed_iterations stays within 0 .. ITERATIONS_THRESHOLD + 1.  A
\* select() entered at or below the threshold leaves the counter and the
\* stored score_average alone until it returns, and its return adds 1.  A
\* select() entered above the threshold sets the counter to 0 and the stored
\* score_average to the store's average of that moment, whether it declares
\* stagnation (and returns at once, the counter then 1) or not.  Nothing but
\* select() changes the counter, and select() changes score_average at a
\* threshold check only.
C23_CounterBoundedAndReset ==
    /\ [](passed_iterations \in 0..(ITERATIONS_THRESHOLD + 1))
    /\ [][(SelectEntered /\ ~ThresholdCheck)
            => /\ passed_iterations' = passed_iterations
               /\ score_average' = score_average]_vars
    /\ [][ThresholdCheck
            => /\ has_total(collection)
               /\ score_average' = CurrentAverage
               /\ passed_iterations' = IF ReturnsStagnation THEN 1 ELSE 0]_vars
    /\ [][ReturnsCrossable => passed_iterations' = passed_iterations + 1]_vars
    /\ [][passed_iterations' # passed_iterations
            => (ThresholdCheck \/ ReturnsCrossable)]_vars
    /\ [][score_average' # score_average
            => (ThresholdCheck \/ pc = "average")]_vars

\* The 32nd select() found the counter at 31, replaced the stored average
\* by another one and returned with the counter at 1.
C23_Witness ==
    /\ iterations = ITERATIONS_THRESHOLD + 2
    /\ passed_iterations = 1
    /\ pc = "generate"
    /\ score_average # Average(overall_score(SeededCollection),
                               total_queries(SeededCollection))
=============================================================================
